---------------------------- MODULE Spec2Model ----------------------------
(***************************************************************************)
(* Model of hullInvestmentApp.py: one run of the Streamlit script, from    *)
(* loading the Land Registry CSV, through scraping the listing, filtering  *)
(* the comparables, the median, the investment metrics and the buy         *)
(* decision.                                                               *)
(*                                                                         *)
(* Text is a sequence of one-character strings, so that substring tests,   *)
(* str.lower, str.title, str.replace, int() and the regular expressions    *)
(* are computed character by character.  Python numbers are modelled as    *)
(* exact rationals [n, d].                                                 *)
(***************************************************************************)
EXTENDS Integers, Sequences, FiniteSets

\* None where a text is expected (a missing tag, a NaN cell): a sequence
\* that is no text, its one element being no character
None == <<"None">>

\* None where a number is expected: no rational has denominator 0
NoNumber == [n |-> 0, d |-> 0]

\* the integer k as a number
Num(k) == [n |-> k, d |-> 1]

\* The pound sign of the listing price, one character of text.
Pound == "GBP"

---------------------------------------------------------------------------
(* Characters and text                                                     *)

LowerLetters == <<"a","b","c","d","e","f","g","h","i","j","k","l","m","n","o","p","q","r","s","t","u","v","w","x","y","z">>
UpperLetters == <<"A","B","C","D","E","F","G","H","I","J","K","L","M","N","O","P","Q","R","S","T","U","V","W","X","Y","Z">>
Digits == <<"0","1","2","3","4","5","6","7","8","9">>

IsLower(c) == \E i \in 1..26 : LowerLetters[i] = c
IsUpper(c) == \E i \in 1..26 : UpperLetters[i] = c
IsLetter(c) == IsLower(c) \/ IsUpper(c)
IsDigit(c) == \E i \in 1..10 : Digits[i] = c
DigitVal(c) == (CHOOSE i \in 1..10 : Digits[i] = c) - 1

\* str.lower / str.upper on one character
LowerChar(c) == IF IsUpper(c) THEN LowerLetters[CHOOSE i \in 1..26 : UpperLetters[i] = c] ELSE c
UpperChar(c) == IF IsLower(c) THEN UpperLetters[CHOOSE i \in 1..26 : LowerLetters[i] = c] ELSE c

\* str.lower()
Lower(s) == [i \in 1..Len(s) |-> LowerChar(s[i])]

\* str.title(): a letter that follows a non-letter (or starts the text) is
\* upper-cased, every other letter lower-cased
Title(s) == [i \in 1..Len(s) |->
               IF i = 1 \/ ~IsLetter(s[i-1]) THEN UpperChar(s[i]) ELSE LowerChar(s[i])]

\* key in text: the literal substring test of Python's `in`
Contains(text, key) ==
    \E k \in 0..(Len(text) - Len(key)) :
        \A i \in 1..Len(key) : text[k + i] = key[i]

\* str.replace(ch, ""): every occurrence of the character removed
RECURSIVE Remove(_, _)
Remove(s, ch) ==
    IF s = <<>> THEN <<>>
    ELSE IF Head(s) = ch THEN Remove(Tail(s), ch)
         ELSE <<Head(s)>> \o Remove(Tail(s), ch)

---------------------------------------------------------------------------
(* price_to_number and extract_price_with_regex                            *)

\* int(clean_str) on text of digits: the decimal value
RECURSIVE DecimalValue(_)
DecimalValue(s) ==
    IF s = <<>> THEN 0
    ELSE 10 * DecimalValue(SubSeq(s, 1, Len(s) - 1)) + DigitVal(s[Len(s)])

\* int(clean_str) raises ValueError on the empty text and on any character
\* that is not a digit (over the price alphabet: the dot, the pound sign)
IntRaisesValueError(s) == s = <<>> \/ \E i \in 1..Len(s) : ~IsDigit(s[i])

price_to_number(price_str) ==
    IF price_str # None /\ price_str # <<>>
    THEN LET clean_str == Remove(Remove(price_str, Pound), ",")
         IN  IF IntRaisesValueError(clean_str) THEN NoNumber
             ELSE Num(DecimalValue(clean_str))
    ELSE NoNumber

IsDigitOrComma(c) == IsDigit(c) \/ c = ","

\* the end of the longest run of [\d,] that starts at position i
RECURSIVE RunEnd(_, _)
RunEnd(text, i) ==
    IF i + 1 <= Len(text) /\ IsDigitOrComma(text[i + 1]) THEN RunEnd(text, i + 1) ELSE i

\* re.search(r'£[\d,]+(?:\.\d{2})?', text): the leftmost match, greedy
extract_price_with_regex(text) ==
    LET starts == {i \in 1..Len(text) :
                      /\ text[i] = Pound
                      /\ i + 1 <= Len(text)
                      /\ IsDigitOrComma(text[i + 1])}
    IN  IF starts = {} THEN None
        ELSE LET i == CHOOSE x \in starts : \A y \in starts : x <= y
                 j == RunEnd(text, i + 1)
                 frac == /\ j + 3 <= Len(text)
                         /\ text[j + 1] = "."
                         /\ IsDigit(text[j + 2])
                         /\ IsDigit(text[j + 3])
             IN  SubSeq(text, i, IF frac THEN j + 3 ELSE j)

---------------------------------------------------------------------------
(* scrape_rightmove: the property type                                     *)

k_apartment == <<"a","p","a","r","t","m","e","n","t">>
k_flat == <<"f","l","a","t">>
k_detached == <<"d","e","t","a","c","h","e","d">>
k_semi_detached == <<"s","e","m","i","-","d","e","t","a","c","h","e","d">>
k_terraced == <<"t","e","r","r","a","c","e","d">>
k_end_of_terrace == <<"e","n","d"," ","o","f"," ","t","e","r","r","a","c","e">>
k_bungalow == <<"b","u","n","g","a","l","o","w">>

Flat == <<"F","l","a","t">>
DetachedHouse == <<"D","e","t","a","c","h","e","d"," ","H","o","u","s","e">>
SemiDetachedHouse == <<"S","e","m","i","-","D","e","t","a","c","h","e","d"," ","H","o","u","s","e">>
TerracedHouse == <<"T","e","r","r","a","c","e","d"," ","H","o","u","s","e">>
EndOfTerraceHouse == <<"E","n","d"," ","o","f"," ","T","e","r","r","a","c","e"," ","H","o","u","s","e">>
Bungalow == <<"B","u","n","g","a","l","o","w">>

\* the dict of scrape_rightmove, in its insertion order (the order the
\* for loop visits it)
scrape_type_mapping ==
    << <<k_apartment, Flat>>,
       <<k_flat, Flat>>,
       <<k_detached, DetachedHouse>>,
       <<k_semi_detached, SemiDetachedHouse>>,
       <<k_terraced, TerracedHouse>>,
       <<k_end_of_terrace, EndOfTerraceHouse>>,
       <<k_bungalow, Bungalow>> >>

\* for key, value in type_mapping.items(): if key in raw_type: ... break
\* else: raw_type.title()
NormaliseType(tag_text) ==
    LET raw_type == Lower(tag_text)
        hits == {i \in 1..Len(scrape_type_mapping) :
                    Contains(raw_type, scrape_type_mapping[i][1])}
    IN  IF hits = {} THEN Title(raw_type)
        ELSE scrape_type_mapping[CHOOSE i \in hits : \A j \in hits : i <= j][2]

\* full_address.split(","): the address tag's text is given as its comma
\* separated parts, each stripped (one part when it has no comma);
\* NoAddressTag when the page has no address tag (split never returns it)
NoAddressTag == <<>>

ScrapeStreet(address) == IF address = NoAddressTag THEN None ELSE address[1]

ScrapePostcode(address) ==
    IF Len(address) >= 2 THEN address[Len(address)] ELSE None

\* data = {...} of scrape_rightmove for a page [priceText, address, typeText],
\* priceText and typeText None when their tag is not on the page
scrape_rightmove(pg) ==
    [price         |-> IF pg.priceText = None THEN None
                       ELSE extract_price_with_regex(pg.priceText),
     postcode      |-> ScrapePostcode(pg.address),
     street        |-> ScrapeStreet(pg.address),
     property_type |-> IF pg.typeText = None THEN None
                       ELSE NormaliseType(pg.typeText)]

---------------------------------------------------------------------------
(* Numbers: Python's int and float arithmetic as exact rationals           *)

Abs(x) == IF x < 0 THEN -x ELSE x

RECURSIVE GCD(_, _)
GCD(a, b) == IF b = 0 THEN a ELSE GCD(b, a % b)

\* n/d in lowest terms with a positive denominator (d # 0)
Norm(n, d) ==
    LET g == GCD(Abs(n), Abs(d))
        s == IF d < 0 THEN -1 ELSE 1
    IN  [n |-> (s * n) \div g, d |-> (s * d) \div g]

Add(a, b) == Norm(a.n * b.d + b.n * a.d, a.d * b.d)
Sub(a, b) == Norm(a.n * b.d - b.n * a.d, a.d * b.d)
Mul(a, b) == Norm(a.n * b.n, a.d * b.d)
\* a / b for b # 0 (Python raises ZeroDivisionError for b = 0)
Div(a, b) == Norm(a.n * b.d, a.d * b.n)
Leq(a, b) == a.n * b.d <= b.n * a.d
Lt(a, b)  == a.n * b.d < b.n * a.d
Geq(a, b) == Leq(b, a)
Gt(a, b)  == Lt(b, a)
IsZero(a) == a.n = 0

---------------------------------------------------------------------------
(* The comparable filter, the sort and the median                          *)

\* a NaN cell of the property_type column
NaN == "NaN"
\* the value of dict.get for a key the dict does not hold
NoCode == "NoCode"

\* type_mapping.get(property_type) of the app
type_mapping_get(property_type) ==
    CASE property_type = Flat              -> "F"
      [] property_type = DetachedHouse     -> "D"
      [] property_type = SemiDetachedHouse -> "S"
      [] property_type = TerracedHouse     -> "T"
      [] property_type = EndOfTerraceHouse -> "E"
      [] property_type = Bungalow          -> "B"
      [] OTHER                             -> NoCode

\* df["street"].str: pandas reads a column whose every cell is empty as
\* float64, and the .str accessor of a non-text column raises
\* AttributeError; a frame without rows keeps the object dtype
StrAccessorRaises(frame) ==
    /\ frame # <<>>
    /\ \A i \in 1..Len(frame) : frame[i].street = None

PatternTypeError == "TypeError: first argument must be string or compiled pattern"
OperandTypeError == "TypeError: unsupported operand type(s) for *"

\* re.compile(pat) inside str.contains (regex=True is the default):
\* None is no pattern (TypeError); over the street alphabet, which has no
\* ")", every "(" opens a group that is never closed (re.error)
CompileRaises(pat) ==
    IF pat = None THEN PatternTypeError
    ELSE IF \E i \in 1..Len(pat) : pat[i] = "(" THEN "re.error"
    ELSE "no"

\* one pattern character against one text character under re.IGNORECASE:
\* "." matches any character, every other character itself
PatCharMatches(pc_, c) == pc_ = "." \/ LowerChar(pc_) = LowerChar(c)

\* re.search(pat, text, re.IGNORECASE) for a pattern of literals and dots
RegexSearch(pat, text) ==
    \E k \in 0..(Len(text) - Len(pat)) :
        \A i \in 1..Len(pat) : PatCharMatches(pat[i], text[k + i])

\* Series.str.contains(street_name, case=False, na=False) for one row
str_contains(cell, street_name) ==
    IF cell = None THEN FALSE ELSE RegexSearch(street_name, cell)

\* df["property_type"] == land_registry_type for one row: a comparison
\* with None is False for every cell, and a NaN cell equals nothing
type_equals(cell, code) ==
    code # NoCode /\ cell # NaN /\ cell = code

\* the rows a boolean mask keeps, in the frame's order
RECURSIVE SelectRows(_, _, _)
SelectRows(frame, street_name, code) ==
    IF frame = <<>> THEN <<>>
    ELSE LET row == Head(frame)
             rest == SelectRows(Tail(frame), street_name, code)
         IN  IF str_contains(row.street, street_name)
                /\ type_equals(row.property_type, code)
             THEN <<row>> \o rest
             ELSE rest

\* the exception the filter expression raises, "no" when it raises none
FilterRaises(frame, street_name) ==
    IF StrAccessorRaises(frame) THEN "AttributeError"
    ELSE CompileRaises(street_name)

\* row inserted behind every row of the sorted sequence that does not
\* come after it (numpy sorts short arrays by insertion: ties keep the
\* frame's order)
RECURSIVE InsertByDate(_, _)
InsertByDate(sorted, row) ==
    IF sorted = <<>> THEN <<row>>
    ELSE IF sorted[Len(sorted)].deed_date <= row.deed_date
         THEN Append(sorted, row)
         ELSE Append(InsertByDate(SubSeq(sorted, 1, Len(sorted) - 1), row),
                     sorted[Len(sorted)])

\* DataFrame.sort_values("deed_date")
RECURSIVE sort_values(_)
sort_values(frame) ==
    IF frame = <<>> THEN <<>>
    ELSE InsertByDate(sort_values(SubSeq(frame, 1, Len(frame) - 1)),
                      frame[Len(frame)])

\* price inserted into an ascending sequence of prices
RECURSIVE InsertPrice(_, _)
InsertPrice(sorted, x) ==
    IF sorted = <<>> THEN <<x>>
    ELSE IF sorted[Len(sorted)] <= x THEN Append(sorted, x)
         ELSE Append(InsertPrice(SubSeq(sorted, 1, Len(sorted) - 1), x),
                     sorted[Len(sorted)])

RECURSIVE SortedPrices(_)
SortedPrices(frame) ==
    IF frame = <<>> THEN <<>>
    ELSE InsertPrice(SortedPrices(SubSeq(frame, 1, Len(frame) - 1)),
                     frame[Len(frame)].price_paid)

\* a slip: the middle of the prices in frame order, not sorted
median_unsorted(frame) ==
    LET k == Len(frame)
    IN  IF k = 0 THEN NoNumber
        ELSE IF k % 2 = 1 THEN Num(frame[(k + 1) \div 2].price_paid)
        ELSE Norm(frame[k \div 2].price_paid + frame[k \div 2 + 1].price_paid, 2)

\* Series.median(): the middle value of the sorted prices, the mean of the
\* two middle values for an even count, NaN for no value at all
median(frame) ==
    LET v == SortedPrices(frame)
        k == Len(v)
    IN  IF k = 0 THEN NoNumber
        ELSE IF k % 2 = 1 THEN Num(v[(k + 1) \div 2])
        ELSE Norm(v[k \div 2] + v[k \div 2 + 1], 2)

---------------------------------------------------------------------------
(* The investment calculations and the buy decision                        *)

stamp_duty_percent == 5
gross_yield_threshold == 6
net_yield_threshold == 5
ctc_yield_threshold == 9

\* deposit = selected_price * deposit_percent / 100
deposit_of(price_, deposit_percent) ==
    Div(Mul(price_, Num(deposit_percent)), Num(100))

\* a slip the division by 100 guards against: the percent rate applied
\* to the financed amount as if it were a fraction
total_mortgage_times_percent(price_, deposit, mortgage_percent) ==
    Mul(Sub(price_, deposit), mortgage_percent)

\* total_mortgage = (selected_price - deposit) / 100 * mortgage_percent
total_mortgage_of(price_, deposit, mortgage_percent) ==
    Mul(Div(Sub(price_, deposit), Num(100)), mortgage_percent)

NoMetrics ==
    [deposit |-> NoNumber, stamp_duty |-> NoNumber, total_upfront |-> NoNumber,
     total_mortgage |-> NoNumber, gross_yield |-> NoNumber,
     net_yield |-> NoNumber, cash_invested |-> NoNumber,
     cash_on_cash_return |-> NoNumber, delta_coc |-> NoNumber]

\* the exception the calculations raise, "no" when they raise none:
\* None * int is a TypeError (line 182); a zero price divides by zero at
\* the gross yield (line 188), a zero cash_invested at line 198
CalculationsRaise(price_, w) ==
    IF price_ = NoNumber THEN OperandTypeError
    ELSE IF IsZero(price_) THEN "ZeroDivisionError"
    ELSE LET deposit == deposit_of(price_, w.deposit_percent)
             stamp_duty == Div(Mul(price_, Num(stamp_duty_percent)), Num(100))
             cash_invested == Add(Add(Add(deposit, stamp_duty), Num(w.legal_fees)),
                                  Num(w.refurbishment_cost))
         IN  IF IsZero(cash_invested) THEN "ZeroDivisionError" ELSE "no"

\* lines 182-198, for inputs on which no line raises
Calculations(price_, w) ==
    LET deposit == deposit_of(price_, w.deposit_percent)
        stamp_duty == Div(Mul(price_, Num(stamp_duty_percent)), Num(100))
        total_upfront == Add(Add(Add(deposit, stamp_duty), Num(w.legal_fees)),
                             Num(w.refurbishment_cost))
        total_mortgage == total_mortgage_of(price_, deposit, w.mortgage_percent)
        annual_rent == Num(w.estimated_rent * 12)
        gross_yield == Mul(Div(annual_rent, price_), Num(100))
        annual_operating_costs ==
            Add(Add(total_mortgage, Num(w.maintenance)), Num(w.insurance))
        net_yield ==
            Mul(Div(Sub(annual_rent, annual_operating_costs), price_), Num(100))
        annual_cash_flow ==
            Sub(annual_rent, Add(Add(total_mortgage, Num(w.maintenance)), Num(w.insurance)))
        cash_invested == Add(Add(Add(deposit, stamp_duty), Num(w.legal_fees)),
                             Num(w.refurbishment_cost))
        cash_on_cash_return == Mul(Div(annual_cash_flow, cash_invested), Num(100))
    IN  [deposit |-> deposit, stamp_duty |-> stamp_duty,
         total_upfront |-> total_upfront, total_mortgage |-> total_mortgage,
         gross_yield |-> gross_yield, net_yield |-> net_yield,
         cash_invested |-> cash_invested,
         cash_on_cash_return |-> cash_on_cash_return,
         delta_coc |-> Sub(cash_on_cash_return, Num(ctc_yield_threshold))]

\* a slip at the boundaries: strict comparisons in the first test
BuyDecisionStrict(price_, median_, gross_yield, net_yield) ==
    IF /\ Lt(price_, median_)
       /\ Gt(gross_yield, Num(gross_yield_threshold))
       /\ Gt(net_yield, Num(net_yield_threshold))
    THEN "Good Buy"
    ELSE IF /\ Gt(price_, median_)
            /\ Lt(gross_yield, Num(gross_yield_threshold))
            /\ Lt(net_yield, Num(net_yield_threshold))
         THEN "Not Recommended"
         ELSE "Proceed with Caution"

\* the if / elif / else of the Quick Buy Decision Indicator
BuyDecision(price_, median_, gross_yield, net_yield) ==
    IF /\ Leq(price_, median_)
       /\ Geq(gross_yield, Num(gross_yield_threshold))
       /\ Geq(net_yield, Num(net_yield_threshold))
    THEN "Good Buy"
    ELSE IF /\ Gt(price_, median_)
            /\ Lt(gross_yield, Num(gross_yield_threshold))
            /\ Lt(net_yield, Num(net_yield_threshold))
         THEN "Not Recommended"
         ELSE "Proceed with Caution"

\* st.sidebar.number_input("Property Price", value=price_to_number(price)):
\* the number the user typed, else the default; number_input(value=None)
\* is empty and returns None until the user types a number
PropertyPriceInput(price, w) ==
    IF w.price_typed # NoNumber THEN w.price_typed ELSE price_to_number(price)

---------------------------------------------------------------------------
(* The inputs of a run: the CSV file, the URL box, the listing page and    *)
(* the sidebar widgets                                                     *)

\* rows of a repository in the families below
MaxRows == 3
\* length of the enumerated price texts
MaxPriceLen == 3

\* a row of ppd_data.csv, with the columns the script reads
Row(p, d, st, ty) == [price_paid |-> p, deed_date |-> d, street |-> st, property_type |-> ty]

st_AB  == <<"A","B">>
st_ab  == <<"a","b">>
st_xab == <<"x","a","b">>
st_adot == <<"a",".">>
st_dot == <<".">>
st_paren == <<"(">>
st_aparen == <<"a","(">>
st_b == <<"b">>
postcode_HU5 == <<"H","U","5">>

raw_SemiDetached == <<"S","e","m","i","-","D","e","t","a","c","h","e","d">>
raw_EndOfTerrace == <<"E","n","d"," ","o","f"," ","T","e","r","r","a","c","e">>
raw_Terraced == <<"T","e","r","r","a","c","e","d">>
raw_Detached == <<"D","e","t","a","c","h","e","d">>
raw_Flat == <<"F","l","a","t">>
raw_Apartment == <<"A","p","a","r","t","m","e","n","t">>
raw_Bungalow == <<"B","u","n","g","a","l","o","w">>
raw_Maisonette == <<"M","a","i","s","o","n","e","t","t","e">>
raw_ParkHome == <<"P","a","r","k"," ","H","o","m","e">>

txt_200k == <<Pound,"2","0","0",",","0","0","0">>
txt_200k00 == <<Pound,"2","0","0",",","0","0","0",".","0","0">>
txt_100k == <<Pound,"1","0","0",",","0","0","0">>
txt_POA == <<"P","O","A">>
txt_offers == <<"O","f","f","e","r","s"," ","o","v","e","r"," ",Pound,"9","5",",","0","0","0">>

TypeTexts == {raw_SemiDetached, raw_EndOfTerrace, raw_Terraced, raw_Detached,
              raw_Flat, raw_Apartment, raw_Bungalow, raw_Maisonette,
              raw_ParkHome, None}

PriceChars == {Pound, "2", "0", ",", "."}

PriceTexts ==
    {txt_200k, txt_200k00, txt_100k, txt_POA, txt_offers, None}
    \cup UNION {[1..k -> PriceChars] : k \in 0..MaxPriceLen}

ListingStreets == {st_ab, st_AB, st_adot, st_dot, st_paren, st_aparen, st_b, <<>>}

Addresses ==
    {NoAddressTag} \cup {<<st>> : st \in ListingStreets}
                   \cup {<<st, postcode_HU5>> : st \in {st_ab, st_adot}}

MatchRows ==
    {Row(100, 1, st_AB, "D"), Row(300, 1, st_xab, "D"), Row(200, 2, st_AB, "D"),
     Row(200, 1, st_adot, "S"), Row(400, 2, None, "D"), Row(100, 2, st_AB, NaN)}

Repos == UNION {[1..k -> MatchRows] : k \in 0..MaxRows}

DefaultWidgets ==
    [deposit_percent |-> 25, price_typed |-> NoNumber,
     mortgage_percent |-> [n |-> 11, d |-> 2], legal_fees |-> 2000,
     refurbishment_cost |-> 5000, estimated_rent |-> 600,
     maintenance |-> 800, insurance |-> 170]

\* settings within the ranges of the sliders and number inputs
WideWidgets ==
    [deposit_percent : {0, 25, 100},
     price_typed : {NoNumber, Num(0), Num(100000), Num(150000)},
     mortgage_percent : {Num(0), [n |-> 11, d |-> 2], Num(10)},
     legal_fees : {0, 2000},
     refurbishment_cost : {0, 5000},
     estimated_rent : {0, 500, 600, 1500},
     maintenance : {0, 800},
     insurance : {0, 170}]

CsvOk(rows) == [status |-> "ok", rows |-> rows]
CsvMissing == [status |-> "missing", rows |-> <<>>]
CsvUnreadable == [status |-> "unreadable", rows |-> <<>>]

PageOk(priceText, address, typeText) ==
    [status |-> "ok", priceText |-> priceText, address |-> address, typeText |-> typeText]
PageHttpError == [status |-> "http_error", priceText |-> None,
                  address |-> NoAddressTag, typeText |-> None]

HullRepo == <<Row(120000, 2, st_AB, "D"), Row(90000, 1, st_xab, "D"),
              Row(130000, 1, st_AB, "D")>>

Input(c, u, pg, w) == [csv |-> c, url |-> u, page |-> pg, widgets |-> w]

\* a few runs that between them take every branch of the script
BaseInputs ==
    {Input(c, u, pg, w) :
        c \in {CsvMissing, CsvUnreadable, CsvOk(<<>>), CsvOk(HullRepo),
               CsvOk(<<Row(150000, 1, None, "D")>>)},
        u \in {"", "https://www.rightmove.co.uk/properties/1"},
        pg \in {PageHttpError,
                PageOk(txt_100k, <<st_ab, postcode_HU5>>, raw_Detached),
                PageOk(txt_200k00, <<st_ab>>, raw_SemiDetached),
                PageOk(None, NoAddressTag, None),
                PageOk(txt_POA, <<st_paren>>, raw_Maisonette)},
        w \in {DefaultWidgets,
               [DefaultWidgets EXCEPT !.price_typed = Num(0)],
               [DefaultWidgets EXCEPT !.price_typed = Num(150000)]}}

\* every listing price text and property type, over one repository
ListingInputs ==
    BaseInputs \cup
    {Input(CsvOk(HullRepo), "https://www.rightmove.co.uk/properties/1",
           PageOk(pt, <<st_ab, postcode_HU5>>, tt), DefaultWidgets) :
        pt \in PriceTexts, tt \in TypeTexts}

\* every repository of up to MaxRows rows, listing street and type
MatchInputs ==
    BaseInputs \cup
    {Input(CsvOk(rows), "https://www.rightmove.co.uk/properties/1",
           PageOk(txt_200k, a, tt), DefaultWidgets) :
        rows \in Repos, a \in Addresses,
        tt \in {raw_Detached, raw_SemiDetached, raw_Maisonette, None}}

\* every widget setting, over repositories with different medians
CalcInputs ==
    BaseInputs \cup
    {Input(CsvOk(rows), "https://www.rightmove.co.uk/properties/1",
           PageOk(pt, <<st_ab, postcode_HU5>>, raw_Detached), w) :
        rows \in {HullRepo, <<Row(100000, 1, st_AB, "D")>>,
                  <<Row(90000, 1, st_AB, "D"), Row(100000, 2, st_AB, "D")>>},
        pt \in {txt_100k, txt_POA},
        w \in WideWidgets}

---------------------------------------------------------------------------
(* The run of the script                                                   *)

VARIABLES
    csv,                \* the file at csv_path
    url,                \* the text of the URL box
    page,               \* what requests.get(url) returns
    widgets,            \* the settings of the sidebar widgets
    pc,                 \* where the script is
    df,                 \* the loaded frame
    property_details,   \* the dict scrape_rightmove returned
    land_registry_type,
    postcode_df,        \* the filtered frame
    shown_df,           \* the frame handed to st.dataframe
    median_price,
    selected_price,
    metrics,            \* the values of lines 182-198
    decision,
    messages,           \* st.error / st.warning texts on the page
    exception           \* the uncaught exception that ended the run

vars == <<csv, url, page, widgets, pc, df, property_details, land_registry_type,
          postcode_df, shown_df, median_price, selected_price, metrics,
          decision, messages, exception>>

inputs == <<csv, url, page, widgets>>

NoDetails == [price |-> None, postcode |-> None, street |-> None, property_type |-> None]

CsvNotFound == "CSV file not found"
NoComparables == "No comparable properties found"

InitWith(family) ==
    /\ \E i \in family :
          /\ csv = i.csv
          /\ url = i.url
          /\ page = i.page
          /\ widgets = i.widgets
    /\ pc = "load"
    /\ df = <<>>
    /\ property_details = NoDetails
    /\ land_registry_type = NoCode
    /\ postcode_df = <<>>
    /\ shown_df = <<>>
    /\ median_price = NoNumber
    /\ selected_price = NoNumber
    /\ metrics = NoMetrics
    /\ decision = "none"
    /\ messages = {}
    /\ exception = "no"

Init == InitWith(BaseInputs)

\* an uncaught exception ends the run
Raise(e) ==
    /\ pc' = "crashed"
    /\ exception' = e

\* a slip: the error is reported but st.stop() is left out
LoadCsvWithoutStop ==
    /\ pc = "load"
    /\ IF csv.status = "ok"
       THEN /\ df' = csv.rows
            /\ pc' = "url"
            /\ UNCHANGED <<messages, exception>>
       ELSE IF csv.status = "missing"
       THEN /\ messages' = messages \cup {CsvNotFound}
            /\ pc' = "url"
            /\ UNCHANGED <<df, exception>>
       ELSE /\ Raise("ParserError")
            /\ UNCHANGED <<df, messages>>
    /\ UNCHANGED <<inputs, property_details, land_registry_type, postcode_df,
                   shown_df, median_price, selected_price, metrics, decision>>

\* lines 88-92: df = pd.read_csv(csv_path); FileNotFoundError is caught,
\* reported with st.error and the run stopped with st.stop(); any other
\* failure of read_csv is not caught
LoadCsv ==
    /\ pc = "load"
    /\ IF csv.status = "ok"
       THEN /\ df' = csv.rows
            /\ pc' = "url"
            /\ UNCHANGED <<messages, exception>>
       ELSE IF csv.status = "missing"
       THEN /\ messages' = messages \cup {CsvNotFound}
            /\ pc' = "stopped"
            /\ UNCHANGED <<df, exception>>
       ELSE /\ Raise("ParserError")
            /\ UNCHANGED <<df, messages>>
    /\ UNCHANGED <<inputs, property_details, land_registry_type, postcode_df,
                   shown_df, median_price, selected_price, metrics, decision>>

\* line 98: if rightmove_url: is false for the empty box, the script ends
NoUrl ==
    /\ pc = "url"
    /\ url = ""
    /\ pc' = "idle"
    /\ UNCHANGED <<inputs, df, property_details, land_registry_type, postcode_df,
                   shown_df, median_price, selected_price, metrics, decision,
                   messages, exception>>

\* lines 99-102: property_details = scrape_rightmove(rightmove_url);
\* r.raise_for_status() raises for an error response
Scrape ==
    /\ pc = "url"
    /\ url # ""
    /\ IF page.status = "ok"
       THEN /\ property_details' = scrape_rightmove(page)
            /\ pc' = "filter"
            /\ UNCHANGED exception
       ELSE /\ Raise("HTTPError")
            /\ UNCHANGED property_details
    /\ UNCHANGED <<inputs, df, land_registry_type, postcode_df, shown_df,
                   median_price, selected_price, metrics, decision, messages>>

\* lines 135-141: the Land Registry letter and the filtered frame
Filter ==
    /\ pc = "filter"
    /\ land_registry_type' = type_mapping_get(property_details.property_type)
    /\ IF FilterRaises(df, property_details.street) = "no"
       THEN /\ postcode_df' = SelectRows(df, property_details.street,
                                         land_registry_type')
            /\ pc' = "branch"
            /\ UNCHANGED exception
       ELSE /\ Raise(FilterRaises(df, property_details.street))
            /\ UNCHANGED postcode_df
    /\ UNCHANGED <<inputs, df, property_details, shown_df, median_price,
                   selected_price, metrics, decision, messages>>

\* a slip: the emptiness test left out, every frame taken as filled
NeverEmpty(frame) == FALSE

\* postcode_df.empty
IsEmpty(frame) == frame = <<>>

\* lines 143-144: the warning; the script has no statement after the
\* if / else, so the run ends
WarnNoComparables ==
    /\ pc = "branch"
    /\ IsEmpty(postcode_df)
    /\ messages' = messages \cup {NoComparables}
    /\ pc' = "warned"
    /\ UNCHANGED <<inputs, df, property_details, land_registry_type, postcode_df,
                   shown_df, median_price, selected_price, metrics, decision,
                   exception>>

\* lines 146-155: the table of comparables sorted by deed_date, the median
ShowComparables ==
    /\ pc = "branch"
    /\ ~IsEmpty(postcode_df)
    /\ shown_df' = sort_values(postcode_df)
    /\ median_price' = median(postcode_df)
    /\ pc' = "inputs"
    /\ UNCHANGED <<inputs, df, property_details, land_registry_type, postcode_df,
                   selected_price, metrics, decision, messages, exception>>

\* lines 163-177: the sidebar widgets are read
ReadInputs ==
    /\ pc = "inputs"
    /\ selected_price' = PropertyPriceInput(property_details.price, widgets)
    /\ pc' = "calc"
    /\ UNCHANGED <<inputs, df, property_details, land_registry_type, postcode_df,
                   shown_df, median_price, metrics, decision, messages, exception>>

\* lines 182-198
Calculate ==
    /\ pc = "calc"
    /\ IF CalculationsRaise(selected_price, widgets) = "no"
       THEN /\ metrics' = Calculations(selected_price, widgets)
            /\ pc' = "decide"
            /\ UNCHANGED exception
       ELSE /\ Raise(CalculationsRaise(selected_price, widgets))
            /\ UNCHANGED metrics
    /\ UNCHANGED <<inputs, df, property_details, land_registry_type, postcode_df,
                   shown_df, median_price, selected_price, decision, messages>>

\* lines 212-220, and the display of the decision and the metrics
Decide ==
    /\ pc = "decide"
    /\ decision' = BuyDecision(selected_price, median_price,
                               metrics.gross_yield, metrics.net_yield)
    /\ pc' = "decided"
    /\ UNCHANGED <<inputs, df, property_details, land_registry_type, postcode_df,
                   shown_df, median_price, selected_price, metrics, messages,
                   exception>>

Next ==
    \/ LoadCsv
    \/ NoUrl
    \/ Scrape
    \/ Filter
    \/ WarnNoComparables
    \/ ShowComparables
    \/ ReadInputs
    \/ Calculate
    \/ Decide

Spec == Init /\ [][Next]_vars

InitListing == InitWith(ListingInputs)
SpecListing == InitListing /\ [][Next]_vars

InitMatch == InitWith(MatchInputs)
SpecMatch == InitMatch /\ [][Next]_vars

InitCalc == InitWith(CalcInputs)
SpecCalc == InitCalc /\ [][Next]_vars

---------------------------------------------------------------------------
(* Properties                                                              *)

FilterExceptions == {"AttributeError", PatternTypeError, "re.error"}
CalcExceptions == {OperandTypeError, "ZeroDivisionError"}

\* the filter expression of lines 138-141 has been evaluated or has raised
FilterAttempted ==
    \/ pc \in {"branch", "warned", "inputs", "calc", "decide", "decided"}
    \/ pc = "crashed" /\ exception \in FilterExceptions \cup CalcExceptions

\* scrape_rightmove has returned
Scraped ==
    \/ pc \in {"filter", "branch", "warned", "inputs", "calc", "decide", "decided"}
    \/ pc = "crashed" /\ exception \in FilterExceptions \cup CalcExceptions

\* C1: whenever the decision is computed it is Good Buy exactly when
\* price <= median and gross yield >= 6 and net yield >= 5, Not Recommended
\* exactly when price > median and gross yield < 6 and net yield < 5, and
\* Proceed with Caution in every other case; exactly one of the three labels
\* is produced, fixed by these four values alone (whatever the cash-on-cash
\* return is).
C1_DecisionRule ==
    pc = "decided" =>
        LET cheap == Leq(selected_price, median_price)
            gross == Geq(metrics.gross_yield, Num(6))
            net   == Geq(metrics.net_yield, Num(5))
        IN  /\ decision \in {"Good Buy", "Not Recommended", "Proceed with Caution"}
            /\ (decision = "Good Buy") <=> (cheap /\ gross /\ net)
            /\ (decision = "Not Recommended") <=> (~cheap /\ ~gross /\ ~net)
            /\ (decision = "Proceed with Caution") <=>
                   (~(cheap /\ gross /\ net) /\ ~(~cheap /\ ~gross /\ ~net))

\* a Good Buy at the boundary of all three tests, with a cash-on-cash return
\* below its own threshold of 9
C1_Witness ==
    /\ pc = "decided"
    /\ decision = "Good Buy"
    /\ selected_price = median_price
    /\ metrics.gross_yield = Num(6)
    /\ Lt(metrics.cash_on_cash_return, Num(ctc_yield_threshold))

\* C2: when the price is zero or absent the calculations raise no error and
\* report the gross and net yield as not available, and when cash_invested
\* is zero the cash-on-cash return likewise.
C2_DivisionPolicy ==
    [][pc = "calc" =>
          /\ exception' = "no"
          /\ (selected_price = NoNumber \/ IsZero(selected_price)) =>
                 /\ metrics'.gross_yield = NoNumber
                 /\ metrics'.net_yield = NoNumber
          /\ (metrics'.cash_invested # NoNumber /\ IsZero(metrics'.cash_invested)) =>
                 metrics'.cash_on_cash_return = NoNumber]_vars

LiteralContains(text, key) == Contains(Lower(text), Lower(key))

\* the comparable set as the specification words it
RECURSIVE LiteralComparables(_, _, _)
LiteralComparables(frame, street, code) ==
    IF frame = <<>> THEN <<>>
    ELSE LET row == Head(frame)
             rest == LiteralComparables(Tail(frame), street, code)
         IN  IF /\ street # None
                /\ row.street # None
                /\ LiteralContains(row.street, street)
                /\ code # NoCode
                /\ row.property_type = code
             THEN <<row>> \o rest
             ELSE rest

\* C4: a row is a comparable exactly when its street contains the listing's
\* street as a case-insensitive literal substring and its type code equals
\* the resolved code; a missing street on either side excludes the row and
\* raises nothing, for every listing street, "." and "(" included.
C4_LiteralSubstringFilter ==
    /\ exception \notin FilterExceptions
    /\ pc = "branch" =>
          postcode_df = LiteralComparables(df, property_details.street,
                                           land_registry_type)

\* C5: each of the six labels resolves to its one code, and for a listing
\* whose property type is missing or a fallback label the comparable set is
\* empty and no error is raised, for every repository.
C5_UnmappedTypeEmptyNoError ==
    /\ type_mapping_get(Flat) = "F"
    /\ type_mapping_get(DetachedHouse) = "D"
    /\ type_mapping_get(SemiDetachedHouse) = "S"
    /\ type_mapping_get(TerracedHouse) = "T"
    /\ type_mapping_get(EndOfTerraceHouse) = "E"
    /\ type_mapping_get(Bungalow) = "B"
    /\ (FilterAttempted /\ type_mapping_get(property_details.property_type) = NoCode) =>
          /\ exception = "no"
          /\ postcode_df = <<>>

\* the positions of the dots of a text
DotsOf(s) == {i \in 1..Len(s) : s[i] = "."}

\* parsePrice as the specification words it: symbol and separators
\* stripped, the digits read as an integer, a fractional part truncated
ParsePriceTruncating(text) ==
    IF text = None \/ text = <<>> THEN NoNumber
    ELSE LET clean == Remove(Remove(text, Pound), ",")
         IN  IF ~IntRaisesValueError(clean) THEN Num(DecimalValue(clean))
             ELSE IF Cardinality(DotsOf(clean)) = 1
             THEN LET k == CHOOSE i \in DotsOf(clean) : TRUE
                      whole == SubSeq(clean, 1, k - 1)
                      fraction == SubSeq(clean, k + 1, Len(clean))
                  IN  IF IntRaisesValueError(whole) \/ IntRaisesValueError(fraction)
                      THEN NoNumber
                      ELSE Num(DecimalValue(whole))
             ELSE NoNumber

\* C6: price_to_number never raises; it returns the integer of the digits
\* with symbol and separators removed, the whole-unit amount for a price
\* with a fractional part, and none for empty or non-numeric input.
C6_ParsePrice ==
    (pc = "calc" /\ widgets.price_typed = NoNumber) =>
        selected_price = ParsePriceTruncating(property_details.price)

RowOrders(k) == {p \in [1..k -> 1..k] : \A i, j \in 1..k : p[i] = p[j] => i = j}
Permuted(frame, p) == [i \in 1..Len(frame) |-> frame[p[i]]]
Ascending(frame) ==
    \A i \in 1..(Len(frame) - 1) : frame[i].deed_date <= frame[i + 1].deed_date
DistinctDates(frame) ==
    \A i, j \in 1..Len(frame) : frame[i].deed_date = frame[j].deed_date => i = j

\* C7 (as amended): the median is the same for every order of the
\* repository's rows, the displayed comparables are in ascending deed_date
\* order, and the displayed sequence is the same for every row order when no
\* two comparables share a deed_date.
C7_MedianAndOrder ==
    pc = "inputs" =>
        /\ Ascending(shown_df)
        /\ \A p \in RowOrders(Len(df)) :
              LET other == SelectRows(Permuted(df, p), property_details.street,
                                      land_registry_type)
              IN  /\ median(other) = median_price
                  /\ DistinctDates(postcode_df) => sort_values(other) = shown_df

\* three comparables in an order that is not their price order, two of them
\* of the same deed_date
C7_Witness ==
    /\ pc = "inputs"
    /\ Len(postcode_df) = 3
    /\ postcode_df[1].price_paid > postcode_df[2].price_paid
    /\ postcode_df[2].price_paid < postcode_df[3].price_paid
    /\ ~DistinctDates(postcode_df)
    /\ shown_df # postcode_df

\* C7 (as claimed): the displayed sequence is the same for every row order
\* of the repository, also when comparables share a deed_date.
C7_SameSequenceForEveryRowOrder ==
    pc = "inputs" =>
        \A p \in RowOrders(Len(df)) :
            sort_values(SelectRows(Permuted(df, p), property_details.street,
                                   land_registry_type)) = shown_df

\* C8: when the CSV cannot be loaded the failure is reported at once and
\* the run is over: nothing is scraped, filtered, calculated or decided.
C8_DatasetMissingHalts ==
    (csv.status # "ok" /\ pc # "load") =>
        /\ csv.status = "missing" =>
              pc = "stopped" /\ CsvNotFound \in messages /\ exception = "no"
        /\ csv.status = "unreadable" =>
              pc = "crashed" /\ exception = "ParserError"
        /\ df = <<>>
        /\ property_details = NoDetails
        /\ land_registry_type = NoCode
        /\ postcode_df = <<>>
        /\ shown_df = <<>>
        /\ median_price = NoNumber
        /\ selected_price = NoNumber
        /\ metrics = NoMetrics
        /\ decision = "none"
        /\ NoComparables \notin messages

\* the file is missing, a URL is in the box and the page would load
C8_Witness ==
    /\ csv.status = "missing"
    /\ pc = "stopped"
    /\ url # ""
    /\ page.status = "ok"
    /\ CsvNotFound \in messages

\* C9 (as amended): the yearly mortgage cost the program computes equals
\* the financed amount times rate / 100.
C9_MortgageIsRateShare ==
    pc \in {"decide", "decided"} =>
        metrics.total_mortgage =
            Mul(Sub(selected_price, metrics.deposit),
                Div(widgets.mortgage_percent, Num(100)))

\* a positive rate on a positive financed amount
C9_Witness ==
    /\ pc = "decide"
    /\ Gt(widgets.mortgage_percent, Num(0))
    /\ Gt(selected_price, metrics.deposit)
    /\ Gt(metrics.total_mortgage, Num(0))

\* C9 (as claimed): for a positive rate and price > deposit the computed
\* yearly mortgage cost is 100 times the financed amount times rate / 100.
C9_HundredTimesTooLarge ==
    (/\ pc \in {"decide", "decided"}
     /\ Gt(widgets.mortgage_percent, Num(0))
     /\ Gt(selected_price, metrics.deposit)) =>
        metrics.total_mortgage =
            Mul(Num(100), Mul(Sub(selected_price, metrics.deposit),
                              Div(widgets.mortgage_percent, Num(100))))

\* the label of the longest key of scrape_rightmove's mapping that the raw
\* text contains, the title-cased text when it contains none
MostSpecificLabel(tag_text) ==
    LET raw_type == Lower(tag_text)
        hits == {i \in 1..Len(scrape_type_mapping) :
                    Contains(raw_type, scrape_type_mapping[i][1])}
    IN  IF hits = {} THEN Title(raw_type)
        ELSE scrape_type_mapping[
                 CHOOSE i \in hits : \A j \in hits :
                     Len(scrape_type_mapping[j][1]) <= Len(scrape_type_mapping[i][1])][2]

\* C10: the fetcher resolves a raw type to the label of the most specific
\* key it contains: "semi-detached" gives Semi-Detached House (code S),
\* "end of terrace" gives End of Terrace House (code E).
C10_MostSpecificKey ==
    (Scraped /\ page.typeText # None) =>
        /\ property_details.property_type = MostSpecificLabel(page.typeText)
        /\ Contains(Lower(page.typeText), k_semi_detached) =>
              property_details.property_type = SemiDetachedHouse
        /\ Contains(Lower(page.typeText), k_end_of_terrace) =>
              property_details.property_type = EndOfTerraceHouse

===========================================================================
